---- MODULE Spec2Model ----
(***************************************************************************)
(* Model of the paragraph processing pipeline of the AI proofreader        *)
(* (review_modular.py, config.py): load_paragraphs, the segmenter          *)
(* prepare_segments_for_api, the remediation client get_proofread_data     *)
(* under its backoff.on_exception wrapper, the orchestrator                *)
(* process_segments, create_output_document and main.                      *)
(*                                                                         *)
(* A text is abstracted to the number of tokens the tokenizer gives it;    *)
(* the text with 0 tokens is the empty string.  A JSON value sent by the   *)
(* service is a record of tagged fields, so that a missing or mistyped     *)
(* field is a value the validator can see.                                 *)
(***************************************************************************)
EXTENDS Integers, Sequences, FiniteSets, TLC

\* ---------------------------------------------------------------- bounds
MaxParagraphs == 2

\* ---------------------------------------------------- program constants
MAX_TOKENS_PER_API_REQUEST == 4000
MAX_RETRY_TIME_SECONDS == 60
\* len(enc.encode(SYSTEM_PROMPT)) and len(enc.encode(template with an empty
\* paragraph slot)): fixed numbers once the tokenizer is fixed.
SystemPromptTokens == 37
UserTemplateTokens == 115
JsonBuffer == 200

PromptOverhead == UserTemplateTokens + SystemPromptTokens + JsonBuffer

\* The largest paragraph that still fits the budget.
FitText == MAX_TOKENS_PER_API_REQUEST - PromptOverhead

\* Paragraphs of the document: a short one, one exactly at the budget, one
\* one token over it.  load_paragraphs strips them and drops empty ones.
ParaTexts == {1, FitText, FitText + 1}

\* Texts the service may put in a reply for paragraph `text`: the text
\* itself, a rewritten text (2 tokens) and the empty string (0 tokens).
ReplyTexts(text) == {text, 2, 0}

NumTokens(text) == text

\* ------------------------------------------------------------ JSON values
Str(t) == [tag |-> "str", val |-> t]
Absent == [tag |-> "absent", val |-> 0]
NotStr == [tag |-> "number", val |-> 0]
FbList(items) == [tag |-> "list", items |-> items]
FbAbsent == [tag |-> "absent", items |-> <<>>]
FbNotList == [tag |-> "number", items |-> <<>>]

\* One feedback string: class is the prefix the code writes in front of a
\* diagnostic ("JSON Error", "API Error", "Validation Error",
\* "Processing Error"), or "service" for an entry the service wrote.
Item(class, detail) == [class |-> class, detail |-> detail]
ServiceItems == {<<>>, <<Item("service", "fixed spelling")>>}
DiagnosticClasses == {"JSON Error", "API Error", "Validation Error", "Processing Error"}

Dict(o, c, f) == [original |-> o, corrected |-> c, feedback |-> f]
NoDict == Dict(Absent, Absent, FbAbsent)

\* Replies that carry the three fields with the right types.
WellFormedBodies(text) ==
    {Dict(Str(o), Str(c), FbList(f)) : o \in {text, 2}, c \in ReplyTexts(text), f \in ServiceItems}

\* Replies that parse as JSON but miss or mistype a field.
IllFormedBodies(text) ==
    { Dict(Str(text), Str(2), FbAbsent),
      Dict(Str(text), NotStr, FbList(<<>>)),
      Dict(Absent, Str(text), FbList(<<>>)),
      Dict(Str(text), Str(text), FbNotList) }

\* The exceptions the backoff decorator retries on, and the others the call
\* can raise.
TransientErrors == {"RateLimitError", "APIConnectionError", "APITimeoutError"}
OtherErrors == {"AuthenticationError"}

\* What one call of client.chat.completions.create followed by json.loads
\* can do: return a parsed body, fail to parse, or raise an API error.
Outcome(kind, body) == [kind |-> kind, body |-> body]
ServiceOutcomes(text) ==
    {Outcome("json", b) : b \in WellFormedBodies(text) \cup IllFormedBodies(text)}
      \cup {Outcome("JSONDecodeError", NoDict)}
      \cup {Outcome(e, NoDict) : e \in TransientErrors \cup OtherErrors}

\* ------------------------------------------------------------- segmenter
Segment(i, text, long) == [id |-> i, text |-> text, is_long |-> long]

\* The size test as it would be if a paragraph exactly at the budget were flagged.
IsLong_AtBudget(text) == NumTokens(text) + PromptOverhead >= MAX_TOKENS_PER_API_REQUEST

IsLong(text) == NumTokens(text) + PromptOverhead > MAX_TOKENS_PER_API_REQUEST

RECURSIVE prepare_segments_for_api_SkipLong(_, _)
\* The segmenter as it would be if an oversized paragraph were rejected.
prepare_segments_for_api_SkipLong(paras, done) ==
    IF paras = <<>> THEN <<>>
    ELSE (IF IsLong(Head(paras)) THEN <<>> ELSE <<Segment(done, Head(paras), FALSE)>>)
           \o prepare_segments_for_api_SkipLong(Tail(paras), done + 1)

RECURSIVE prepare_segments_for_api(_, _)
\* paragraphs, number already enumerated -> the segments of the rest
prepare_segments_for_api(paras, done) ==
    IF paras = <<>> THEN <<>>
    ELSE <<Segment(done, Head(paras), IsLong(Head(paras)))>>
           \o prepare_segments_for_api(Tail(paras), done + 1)

\* ----------------------------------------------------- remediation client
Returned(d) == [how |-> "return", value |-> d, exc |-> "none"]
Raised(e) == [how |-> "raise", value |-> NoDict, exc |-> e]

DegradedReply(text, class, detail) ==
    Dict(Str(text), Str(text), FbList(<<Item(class, detail)>>))

\* The body as it would be without its JSONDecodeError clause re-routed: a
\* parse failure leaves the function as an exception.
get_proofread_data_JsonErrorRaises(text, o) ==
    IF o.kind = "json" THEN Returned(o.body)
    ELSE IF o.kind = "JSONDecodeError" THEN Raised(o.kind)
    ELSE Returned(DegradedReply(text, "API Error", o.kind))

\* The body as it would be if the errors the decorator retries on were let
\* through to the decorator.
get_proofread_data_TransientPropagates(text, o) ==
    IF o.kind = "json" THEN Returned(o.body)
    ELSE IF o.kind = "JSONDecodeError" THEN Returned(DegradedReply(text, "JSON Error", o.kind))
    ELSE IF o.kind \in TransientErrors THEN Raised(o.kind)
    ELSE Returned(DegradedReply(text, "API Error", o.kind))

\* The body of get_proofread_data: every exception of the call is caught
\* inside it and turned into a reply.
get_proofread_data(text, o) ==
    IF o.kind = "json" THEN Returned(o.body)
    ELSE IF o.kind = "JSONDecodeError" THEN Returned(DegradedReply(text, "JSON Error", o.kind))
    ELSE Returned(DegradedReply(text, "API Error", o.kind))

\* backoff.on_exception(expo, transient errors, max_time): what the wrapper
\* does with the result of one attempt that started `elapsed` seconds after
\* the first one.
BackoffDecision(r, elapsed) ==
    IF r.how = "raise" /\ r.exc \in TransientErrors
    THEN IF elapsed >= MAX_RETRY_TIME_SECONDS THEN "giveup" ELSE "retry"
    ELSE "pass"

Min(a, b) == IF a < b THEN a ELSE b

RECURSIVE Pow2(_)
Pow2(n) == IF n = 0 THEN 1 ELSE 2 * Pow2(n - 1)

\* backoff.expo without jitter, capped by what is left of max_time.
NextWait(tries, elapsed) == Min(Pow2(tries - 1), MAX_RETRY_TIME_SECONDS - elapsed)

\* Seconds one failed attempt can take: a quick refusal or a long timeout.
CallSeconds == {1, 30}

\* ------------------------------------------------------------- validator
\* The validator as it would be if feedback were optional.
IsValidEdit_FeedbackOptional(d) ==
    /\ d.original.tag = "str"
    /\ d.corrected.tag = "str"

\* Edit.model_validate: the three fields are present with the right types.
IsValidEdit(d) ==
    /\ d.original.tag = "str"
    /\ d.corrected.tag = "str"
    /\ d.feedback.tag = "list"

Edit(o, c, f) == [original |-> o, corrected |-> c, feedback |-> f]

model_validate(d) == Edit(d.original.val, d.corrected.val, d.feedback.items)

\* ---------------------------------------------------------- orchestrator
\* A degraded record carries a diagnostic instead of a correction.
IsDegraded(edit) ==
    \E k \in 1..Len(edit.feedback) : edit.feedback[k].class \in DiagnosticClasses

\* One iteration of the loop of process_segments, after get_proofread_data
\* returned or raised r: the record appended for the paragraph.
ProcessedEdit(text, r) ==
    IF r.how = "raise"
    THEN Edit(text, text, <<Item("Processing Error", r.exc)>>)
    ELSE IF IsValidEdit(r.value)
         THEN model_validate(r.value)
         ELSE Edit(text, text, <<Item("Validation Error", "ValidationError")>>)

\* The orchestrator as it would be if a validation failure were only logged.
AppendedBy_DropInvalid(text, r) ==
    IF r.how = "return" /\ ~IsValidEdit(r.value) THEN <<>> ELSE <<ProcessedEdit(text, r)>>

\* The records appended by one iteration: exactly one.
AppendedBy(text, r) == <<ProcessedEdit(text, r)>>

\* The loop as it would be if a failed unit ended it.
AfterIteration_StopOnFailure(idx, n, r) ==
    IF r.how = "raise" \/ ~IsValidEdit(r.value) \/ IsDegraded(model_validate(r.value))
    THEN n + 1 ELSE idx + 1

\* The loop as it would be if a failed unit were submitted again.
AfterIteration_RepeatOnFailure(idx, n, r) ==
    IF r.how = "raise" \/ ~IsValidEdit(r.value) \/ IsDegraded(model_validate(r.value))
    THEN idx ELSE idx + 1

\* Position of the loop after the iteration for unit idx.
AfterIteration(idx, n, r) == idx + 1

\* ------------------------------------------------------------ output stage
RECURSIVE CorrectedCount_ByFeedback(_)
\* The count as it would be if a record with feedback counted as corrected.
CorrectedCount_ByFeedback(rs) ==
    IF rs = <<>> THEN 0
    ELSE (IF Head(rs).feedback # <<>> THEN 1 ELSE 0) + CorrectedCount_ByFeedback(Tail(rs))

RECURSIVE CorrectedCount(_)
\* sum(1 for edit in proofread_results if edit.original != edit.corrected)
CorrectedCount(rs) ==
    IF rs = <<>> THEN 0
    ELSE (IF Head(rs).original # Head(rs).corrected THEN 1 ELSE 0) + CorrectedCount(Tail(rs))

Summary(rs) == [total |-> Len(rs), corrected |-> CorrectedCount(rs)]
NoSummary == [total |-> -1, corrected |-> -1]

\* corrected_para.runs[0] of a paragraph added with an empty text: the
\* paragraph has no run, the subscript raises IndexError.
RenderRaises(rs) ==
    \E k \in 1..Len(rs) : rs[k].original # rs[k].corrected /\ rs[k].corrected = 0

\* ------------------------------------------------------------------ main
\* main as it would be if an empty document were an error.
AfterLoad_EmptyIsError(exists, paras) ==
    IF ~exists \/ paras = <<>> THEN "raise" ELSE "continue"

\* What main does after load_paragraphs: a missing file raises, no
\* paragraph returns, otherwise it goes on.
AfterLoad(exists, paras) ==
    IF ~exists THEN "raise"
    ELSE IF paras = <<>> THEN "return" ELSE "continue"

VARIABLES
    docExists,      \* os.path.exists(INPUT_DOCX_PATH)
    paragraphs,     \* the stripped non-empty paragraphs of the document
    pc,             \* position of main
    exit,           \* how main ended: "running", "noop", "success", "raised"
    segments,       \* segments_to_process
    idx,            \* 1-based position of the loop of process_segments
    phase,          \* "idle", "inflight", "backoff", "returned"
    tries,          \* attempts of the wrapper for the current unit
    elapsed,        \* seconds since the first attempt for the current unit
    raw,            \* what get_proofread_data returned or raised
    results,        \* the list built by process_segments
    resultUnit,     \* id of the segment whose iteration appended results[k]
    ustate,         \* state of each unit
    calls,          \* service calls made for each unit
    lastOutcome,    \* last service outcome of each unit
    gaveUp,         \* the wrapper gave up on the unit after exhausting max_time
    summary,        \* counts written by create_output_document
    printed,        \* counts printed by main
    requests,       \* service requests sent in the run
    artifact        \* the output document: "none", "saved", or "unsaved"
                    \* when the save failed and the failure was swallowed

vars == <<docExists, paragraphs, pc, exit, segments, idx, phase, tries, elapsed, raw,
          results, resultUnit, ustate, calls, lastOutcome, gaveUp, summary, printed,
          requests, artifact>>

Units == 1..Len(paragraphs)
Terminal == {"Succeeded", "Degraded"}
NoOutcome == Outcome("none", NoDict)

RECURSIVE SeqsUpTo(_, _)
SeqsUpTo(S, n) ==
    IF n = 0 THEN {<<>>}
    ELSE SeqsUpTo(S, n - 1) \cup {Append(s, x) : s \in {t \in SeqsUpTo(S, n - 1) : Len(t) = n - 1}, x \in S}

Init ==
    /\ docExists \in BOOLEAN
    /\ paragraphs \in SeqsUpTo(ParaTexts, MaxParagraphs)
    /\ pc = "start"
    /\ exit = "running"
    /\ segments = <<>>
    /\ idx = 1
    /\ phase = "idle"
    /\ tries = 0
    /\ elapsed = 0
    /\ raw = Returned(NoDict)
    /\ results = <<>>
    /\ resultUnit = <<>>
    /\ ustate = [i \in Units |-> "Pending"]
    /\ calls = [i \in Units |-> 0]
    /\ lastOutcome = [i \in Units |-> NoOutcome]
    /\ gaveUp = [i \in Units |-> FALSE]
    /\ summary = NoSummary
    /\ printed = NoSummary
    /\ requests = 0
    /\ artifact = "none"

\* main, lines 189-194: load the document; a missing file raises, an empty
\* document returns.
LoadParagraphs ==
    /\ pc = "start"
    /\ LET a == AfterLoad(docExists, paragraphs) IN
         IF a = "raise"
         THEN pc' = "done" /\ exit' = "raised"
         ELSE IF a = "return"
              THEN pc' = "done" /\ exit' = "noop"
              ELSE pc' = "loaded" /\ exit' = exit
    /\ UNCHANGED <<docExists, paragraphs, segments, idx, phase, tries, elapsed, raw, results,
                   resultUnit, ustate, calls, lastOutcome, gaveUp, summary, printed, requests, artifact>>

\* main, lines 197-204: segment the paragraphs; no segment returns.
PrepareSegments ==
    /\ pc = "loaded"
    /\ LET segs == prepare_segments_for_api(paragraphs, 0) IN
         /\ segments' = segs
         /\ IF segs = <<>>
            THEN pc' = "done" /\ exit' = "noop" /\ ustate' = ustate
            ELSE /\ pc' = "processing"
                 /\ exit' = exit
                 /\ ustate' = [i \in Units |->
                                 IF \E k \in 1..Len(segs) : segs[k].id = i - 1
                                 THEN "Segmented" ELSE "Pending"]
    /\ UNCHANGED <<docExists, paragraphs, idx, phase, tries, elapsed, raw, results,
                   resultUnit, calls, lastOutcome, gaveUp, summary, printed, requests, artifact>>

UnitOf(k) == segments[k].id + 1

\* One attempt: the wrapper calls get_proofread_data, which sends the
\* request (first attempt, or the attempt after a backoff sleep).
SendRequest ==
    /\ pc = "processing"
    /\ idx <= Len(segments)
    /\ phase \in {"idle", "backoff"}
    /\ phase' = "inflight"
    /\ tries' = tries + 1
    /\ calls' = [calls EXCEPT ![UnitOf(idx)] = @ + 1]
    /\ requests' = requests + 1
    /\ ustate' = [ustate EXCEPT ![UnitOf(idx)] = IF phase = "idle" THEN "Requesting" ELSE "Retrying"]
    /\ UNCHANGED <<docExists, paragraphs, pc, exit, segments, idx, elapsed, raw, results,
                   resultUnit, lastOutcome, gaveUp, summary, printed, artifact>>

\* The call ends with outcome o; get_proofread_data handles it and the
\* wrapper passes the result on, sleeps for a retry, or gives up.
ServiceRespond ==
    /\ pc = "processing"
    /\ phase = "inflight"
    /\ \E o \in ServiceOutcomes(segments[idx].text) :
         LET r == get_proofread_data(segments[idx].text, o)
             d == BackoffDecision(r, elapsed)
         IN /\ lastOutcome' = [lastOutcome EXCEPT ![UnitOf(idx)] = o]
            /\ IF d = "retry"
               THEN /\ phase' = "backoff"
                    /\ \E secs \in CallSeconds :
                          elapsed' = elapsed + secs + NextWait(tries, elapsed + secs)
                    /\ raw' = raw
                    /\ gaveUp' = gaveUp
               ELSE /\ phase' = "returned"
                    /\ elapsed' = elapsed
                    /\ raw' = r
                    /\ gaveUp' = [gaveUp EXCEPT ![UnitOf(idx)] = (d = "giveup")]
    /\ UNCHANGED <<docExists, paragraphs, pc, exit, segments, idx, tries, results,
                   resultUnit, ustate, calls, summary, printed, requests, artifact>>

\* process_segments, lines 105-122: validate what came back and append the
\* record of the unit, then go on with the next unit.
ValidateAndAppend ==
    /\ pc = "processing"
    /\ phase = "returned"
    /\ LET text == segments[idx].text
           new == AppendedBy(text, raw)
       IN /\ results' = results \o new
          /\ resultUnit' = resultUnit \o [k \in 1..Len(new) |-> segments[idx].id]
          /\ ustate' = [ustate EXCEPT ![UnitOf(idx)] =
                          IF new = <<>> \/ IsDegraded(new[1]) THEN "Degraded" ELSE "Succeeded"]
    /\ idx' = AfterIteration(idx, Len(segments), raw)
    /\ phase' = "idle"
    /\ tries' = 0
    /\ elapsed' = 0
    /\ UNCHANGED <<docExists, paragraphs, pc, exit, segments, raw, calls, lastOutcome,
                   gaveUp, summary, printed, requests, artifact>>

\* process_segments, line 124: the loop is over, the list is returned.
ReturnResults ==
    /\ pc = "processing"
    /\ phase = "idle"
    /\ idx > Len(segments)
    /\ pc' = "output"
    /\ UNCHANGED <<docExists, paragraphs, exit, segments, idx, phase, tries, elapsed, raw,
                   results, resultUnit, ustate, calls, lastOutcome, gaveUp, summary,
                   printed, requests, artifact>>

\* create_output_document and the end of main, lines 210-221: the summary
\* is written, the records are rendered, the document is saved (a failing
\* save is printed and swallowed) and main prints its own summary; an
\* exception while rendering leaves main through its except/raise.
CreateOutputDocument ==
    /\ pc = "output"
    /\ summary' = Summary(results)
    /\ IF RenderRaises(results)
       THEN /\ artifact' = artifact
            /\ printed' = printed
            /\ exit' = "raised"
       ELSE /\ \E saved \in BOOLEAN : artifact' = IF saved THEN "saved" ELSE "unsaved"
            /\ printed' = Summary(results)
            /\ exit' = "success"
    /\ pc' = "done"
    /\ UNCHANGED <<docExists, paragraphs, segments, idx, phase, tries, elapsed, raw,
                   results, resultUnit, ustate, calls, lastOutcome, gaveUp, requests>>

Next ==
    \/ LoadParagraphs
    \/ PrepareSegments
    \/ SendRequest
    \/ ServiceRespond
    \/ ValidateAndAppend
    \/ ReturnResults
    \/ CreateOutputDocument

Spec == Init /\ [][Next]_vars

TypeOK ==
    /\ pc \in {"start", "loaded", "processing", "output", "done"}
    /\ exit \in {"running", "noop", "success", "raised"}
    /\ phase \in {"idle", "inflight", "backoff", "returned"}
    /\ idx \in 1..(Len(paragraphs) + 1)
    /\ artifact \in {"none", "saved", "unsaved"}
    /\ requests \in Nat

\* ------------------------------------------------------------ properties
ProcessReturned == pc \in {"output", "done"} /\ segments # <<>>

TextOf(i) == paragraphs[i]

\* C1: once process_segments has returned, its list has exactly one record
\* per segment and the record at position k was appended by the iteration
\* for segment k, whatever the service did for each unit.
C1_OneRecordPerSegment ==
    ProcessReturned =>
        /\ Len(results) = Len(segments)
        /\ Len(resultUnit) = Len(segments)
        /\ \A k \in 1..Len(resultUnit) : resultUnit[k] = segments[k].id

C1_Witness ==
    /\ pc = "output"
    /\ Len(results) = 2
    /\ ustate[1] = "Degraded"
    /\ lastOutcome[1].kind = "json"
    /\ ustate[2] = "Succeeded"

\* C2: every stored record has original equal to the input text of its
\* unit, whatever the service echoed in its original field.
C2_OriginalIsInputText ==
    \A k \in 1..Len(results) : results[k].original = segments[resultUnit[k] + 1].text

\* C3: a transient failure met before the retry budget is exhausted does
\* not end the unit: the call is attempted again, so a unit is never
\* Degraded by a transient failure with budget left.
C3_TransientIsRetried ==
    \A i \in Units :
        (ustate[i] = "Degraded" /\ lastOutcome[i].kind \in TransientErrors) => gaveUp[i]

\* C4: a unit whose service call ended on a transient failure is Degraded
\* with corrected = original = input text, and its feedback is the
\* diagnostic of the error escalated once the retry budget was exhausted.
C4_ExhaustionDegrades ==
    \A i \in Units :
        (ustate[i] \in Terminal /\ lastOutcome[i].kind \in TransientErrors) =>
            /\ ustate[i] = "Degraded"
            /\ results[i].original = TextOf(i)
            /\ results[i].corrected = TextOf(i)
            /\ gaveUp[i]
            /\ results[i].feedback = <<Item("Processing Error", lastOutcome[i].kind)>>

\* C5: a reply that parses as JSON but misses or mistypes one of the three
\* fields gives a Degraded record with original = corrected = input text
\* and one feedback entry naming a validation error, and the loop moves on
\* to the next unit.
C5_InvalidReplyDegrades ==
    \A i \in Units :
        ( /\ ustate[i] \in Terminal
          /\ lastOutcome[i].kind = "json"
          /\ lastOutcome[i].body \in IllFormedBodies(TextOf(i)) ) =>
            /\ ustate[i] = "Degraded"
            /\ Len(results) >= i
            /\ results[i].original = TextOf(i)
            /\ results[i].corrected = TextOf(i)
            /\ Len(results[i].feedback) = 1
            /\ results[i].feedback[1].class = "Validation Error"
            /\ idx > i

C5_Witness ==
    /\ pc = "output"
    /\ Len(results) = 2
    /\ lastOutcome[1].kind = "json"
    /\ lastOutcome[1].body.feedback = FbAbsent
    /\ ustate[2] = "Succeeded"

\* C6: when process_segments has returned, every unit was submitted to the
\* service and is Succeeded or Degraded, whichever units failed before it.
C6_FailureDoesNotAbort ==
    ProcessReturned =>
        \A i \in Units : calls[i] >= 1 /\ ustate[i] \in Terminal

C6_Witness ==
    /\ pc = "output"
    /\ Len(paragraphs) = 2
    /\ ustate[1] = "Degraded"
    /\ lastOutcome[1].kind \in TransientErrors
    /\ calls[2] = 1
    /\ ustate[2] \in Terminal

\* C7: a paragraph with tokens + overhead over the budget is a segment
\* flagged is_long as soon as segmentation is done (so before any request),
\* is submitted to the service and has its record in the returned list.
C7_OversizedNotSkipped ==
    \A k \in 1..Len(paragraphs) :
        (NumTokens(paragraphs[k]) + PromptOverhead > MAX_TOKENS_PER_API_REQUEST) =>
            /\ (requests > 0 \/ pc \in {"processing", "output"}) =>
                   /\ Len(segments) = Len(paragraphs)
                   /\ segments[k].text = paragraphs[k]
                   /\ segments[k].is_long
            /\ (pc = "output") =>
                   /\ Len(segments) = Len(paragraphs)
                   /\ calls[k] >= 1
                   /\ Len(results) = Len(paragraphs)
                   /\ resultUnit[k] = k - 1

C7_Witness ==
    /\ pc = "output"
    /\ Len(paragraphs) = 2
    /\ paragraphs[2] = FitText + 1
    /\ segments[2].is_long
    /\ calls[2] = 1
    /\ ustate[2] = "Succeeded"

Differs(k) == results[k].original # results[k].corrected

\* The two-unit scenario: the service changes unit 1 and returns unit 2
\* unchanged, both echoing the input text.
C8_Scenario ==
    /\ Len(paragraphs) = 2
    /\ lastOutcome[1].kind = "json"
    /\ lastOutcome[1].body = Dict(Str(TextOf(1)), Str(2), FbList(<<Item("service", "fixed spelling")>>))
    /\ TextOf(1) # 2
    /\ lastOutcome[2].kind = "json"
    /\ lastOutcome[2].body = Dict(Str(TextOf(2)), Str(TextOf(2)), FbList(<<>>))

\* C8: the summary written to the report, and the one main prints, give
\* total = number of records and corrected = number of records whose
\* corrected differs from original; in the two-unit scenario there are 2
\* records, the first differs, the second does not, and corrected = 1.
C8_SummaryCounts ==
    (summary # NoSummary) =>
        /\ summary.total = Len(results)
        /\ summary.corrected = Cardinality({k \in 1..Len(results) : Differs(k)})
        /\ (printed # NoSummary) => printed = summary
        /\ C8_Scenario =>
              /\ Len(results) = 2
              /\ Differs(1)
              /\ ~Differs(2)
              /\ summary.total = 2
              /\ summary.corrected = 1

C8_Witness ==
    /\ pc = "done"
    /\ C8_Scenario
    /\ printed = [total |-> 2, corrected |-> 1]
    /\ artifact = "saved"

\* C9: when the document was loaded, main ends without raising and with an
\* output document written (or at least its save attempted), for any number
\* of units and any service outcomes.
C9_AlwaysProducesOutput ==
    (pc = "done" /\ docExists) =>
        /\ exit # "raised"
        /\ artifact \in {"saved", "unsaved"}

\* C10: a document with no paragraph ends main normally, as a no-op, with
\* no service request and nothing processed; and the segmenter maps the
\* empty sequence to the empty sequence.
C10_EmptyInputIsNoOp ==
    /\ (docExists /\ paragraphs = <<>>) =>
          /\ requests = 0
          /\ results = <<>>
          /\ exit # "raised"
          /\ (pc = "done") => exit = "noop"
    /\ (paragraphs = <<>>) => prepare_segments_for_api(paragraphs, 0) = <<>>

C10_Witness ==
    /\ pc = "done"
    /\ docExists
    /\ paragraphs = <<>>
    /\ exit = "noop"

\* C11: a missing document ends main with an error before anything is
\* segmented, requested or written, and it is the only thing that makes
\* main end with an error.
C11_OnlyMissingDocumentHalts ==
    /\ (~docExists) =>
          /\ requests = 0
          /\ segments = <<>>
          /\ artifact = "none"
          /\ \A i \in Units : ustate[i] = "Pending"
          /\ (pc = "done") => exit = "raised"
    /\ (exit = "raised") => ~docExists

NonTransientFailures == {"JSONDecodeError"} \cup OtherErrors

DiagnosticClassOf(kind) == IF kind = "JSONDecodeError" THEN "JSON Error" ELSE "API Error"

\* C12: a malformed-JSON reply or another non-transient failure of the
\* call is answered after exactly one service call by a returned (not
\* raised) degraded reply {original: text, corrected: text, feedback: [one
\* diagnostic naming the failure]}, which becomes the unit's record.
C12_NonTransientNotRetried ==
    \A i \in Units :
        (lastOutcome[i].kind \in NonTransientFailures) =>
            /\ calls[i] = 1
            /\ ustate[i] # "Retrying"
            /\ (phase = "returned" /\ UnitOf(idx) = i) =>
                  raw = Returned(Dict(Str(TextOf(i)), Str(TextOf(i)),
                            FbList(<<Item(DiagnosticClassOf(lastOutcome[i].kind), lastOutcome[i].kind)>>)))
            /\ (ustate[i] \in Terminal) =>
                  /\ Len(results) >= i
                  /\ results[i] = Edit(TextOf(i), TextOf(i),
                            <<Item(DiagnosticClassOf(lastOutcome[i].kind), lastOutcome[i].kind)>>)

C12_Witness ==
    /\ pc = "output"
    /\ Len(paragraphs) = 2
    /\ lastOutcome[1].kind = "JSONDecodeError"
    /\ lastOutcome[2].kind = "AuthenticationError"
    /\ calls[1] = 1
    /\ calls[2] = 1

\* C13: get_proofread_data leaves by an exception exactly when its last
\* attempt failed with a transient error, and then the retry budget was
\* exhausted; it returns in every other case.
C13_RaisesExactlyOnExhaustion ==
    (pc = "processing" /\ phase = "returned") =>
        /\ (raw.how = "raise") <=> (lastOutcome[UnitOf(idx)].kind \in TransientErrors)
        /\ (raw.how = "raise") => gaveUp[UnitOf(idx)]

Rank(st) ==
    CASE st = "Pending" -> 0
      [] st = "Segmented" -> 1
      [] st = "Requesting" -> 2
      [] st = "Retrying" -> 3
      [] OTHER -> 4

\* C14: in every step each unit keeps its state or moves forward along
\* Pending, Segmented, Requesting, Retrying, {Succeeded, Degraded}; a unit
\* that is Succeeded or Degraded keeps its state and its stored record.
C14_UnitsOnlyMoveForward ==
    [][\A i \in Units :
          /\ Rank(ustate'[i]) >= Rank(ustate[i])
          /\ (ustate[i] \in Terminal) =>
                /\ ustate'[i] = ustate[i]
                /\ Len(results) >= i
                /\ Len(results') >= i
                /\ results'[i] = results[i]]_vars

C14_Witness ==
    /\ pc = "done"
    /\ Len(paragraphs) = 2
    /\ ustate[1] = "Succeeded"
    /\ ustate[2] = "Degraded"
    /\ exit = "success"

InFlight == {i \in Units : ustate[i] \in {"Requesting", "Retrying"}}

\* C15: at most one unit has a service call under way, and a unit has been
\* submitted only if every unit before it is Succeeded or Degraded with its
\* record in the list.
C15_StrictlySequential ==
    /\ Cardinality(InFlight) <= 1
    /\ (phase = "inflight") => Cardinality(InFlight) = 1
    /\ \A i \in Units :
          (calls[i] >= 1) =>
              \A j \in 1..(i - 1) :
                  /\ ustate[j] \in Terminal
                  /\ Len(results) >= j
                  /\ resultUnit[j] = j - 1

C15_Witness ==
    /\ pc = "processing"
    /\ phase = "inflight"
    /\ idx = 2
    /\ ustate[1] = "Degraded"
    /\ ustate[2] = "Requesting"
    /\ Len(results) = 1

Segmentation ==
    pc \in {"processing", "output"} \/ (pc = "done" /\ docExists /\ paragraphs # <<>>)

\* C16: the segmenter gives one unit per paragraph, in order, with id the
\* 0-based position and text the paragraph, flagged exactly when overhead +
\* tokens > budget; a paragraph exactly at the budget is not flagged.
C16_SegmenterContract ==
    Segmentation =>
        /\ Len(segments) = Len(paragraphs)
        /\ \A k \in 1..Len(segments) :
              /\ segments[k].id = k - 1
              /\ segments[k].text = paragraphs[k]
              /\ segments[k].is_long <=>
                    (PromptOverhead + NumTokens(paragraphs[k]) > MAX_TOKENS_PER_API_REQUEST)
              /\ (PromptOverhead + NumTokens(paragraphs[k]) = MAX_TOKENS_PER_API_REQUEST)
                    => ~segments[k].is_long

C16_Witness ==
    /\ pc = "processing"
    /\ paragraphs = <<FitText, FitText + 1>>
    /\ ~segments[1].is_long
    /\ segments[2].is_long

\* C18: every unit costs exactly one service call whatever its outcome:
\* get_proofread_data never leaves by an exception, the wrapper never
\* sleeps or gives up, and no record comes from the generic error branch.
C18_OneCallPerUnit ==
    /\ \A i \in Units :
          /\ calls[i] <= 1
          /\ (ustate[i] \in Terminal) => calls[i] = 1
          /\ ~gaveUp[i]
          /\ ustate[i] # "Retrying"
    /\ phase # "backoff"
    /\ (phase = "returned") => raw.how = "return"
    /\ \A k \in 1..Len(results) :
          \A n \in 1..Len(results[k].feedback) :
              results[k].feedback[n].class # "Processing Error"
    /\ ProcessReturned => requests = Len(segments)

C18_Witness ==
    /\ pc = "output"
    /\ Len(paragraphs) = 2
    /\ lastOutcome[1].kind = "APITimeoutError"
    /\ calls[1] = 1
    /\ results[1].feedback = <<Item("API Error", "APITimeoutError")>>
    /\ lastOutcome[2].kind = "RateLimitError"
    /\ requests = 2
====
